---------------------------- MODULE Spec2Model ----------------------------
(*************************************************************************)
(* Endpoint persistence and restore of the bridge driver                 *)
(* (drivers/bridge/endpoint_store.go).                                   *)
(*                                                                       *)
(* Three parts and four specifications:                                  *)
(*   SpecCodec    Value()/SetValue(): MarshalJSON and UnmarshalJSON of   *)
(*                bridgeEndpoint and of its two sub-configurations;      *)
(*   SpecCopy     CopyTo() on records laid out in a heap of Go objects;  *)
(*   SpecRestore  populateEndpoints() alone, and                         *)
(*   SpecConc     populateEndpoints() beside a runtime thread that       *)
(*                creates and deletes endpoints of the same network.     *)
(*                                                                       *)
(* A Go string is a sequence of tokens (TLA+ strings), so that a         *)
(* stringified address, MAC or port binding has parts a parser has to    *)
(* find again.  A Go interface{} value is a record whose field t is its  *)
(* dynamic type; a JSON document is a record whose field j is its kind.  *)
(*************************************************************************)
EXTENDS Integers, Sequences, FiniteSets, TLC

VARIABLES
  \* ---- codec ----
  rec,        \* the endpoint record handed to Value()
  bytes,      \* the JSON document held by the store for that key
  origin,     \* "none" | "encoded" (written by Value()) | "raw" (found in the store)
  dec,        \* the outcome of SetValue() on a record from New()
  cpc,        \* "new" | "stored" | "decoded" | "idle"
  \* ---- deep copy ----
  heap,       \* the Go objects: a sequence of cells, a reference is an index, 0 is nil
  epA,        \* the receiver of CopyTo (a bridgeEndpoint struct)
  epB,        \* the destination of CopyTo
  copied,     \* CopyTo has returned
  touched,    \* the records mutated since CopyTo returned
  snapA,      \* epA's contents when CopyTo returned
  snapB,      \* epB's contents when CopyTo returned
  nmut,       \* number of mutations made
  \* ---- restore ----
  endpoints,  \* n.endpoints: the network's endpoint table, id -> record
  endpoints0, \* the table when populateEndpoints was called
  kvstore,    \* what the store holds under the network's key prefix
  kvol,       \* the records the store's List call returned
  listErr,    \* the error of the store's List call
  eps,        \* the slice returned by getEndpointsFromStore
  idx,        \* position of the range loop over eps
  cur,        \* the loop variable ep
  ret,        \* populateEndpoints' return value
  rpc,        \* where populateEndpoints is
  lock,       \* the holder of n's mutex
  tpc,        \* where the runtime thread is
  tops        \* number of table operations the runtime thread has made

codecVars == <<rec, bytes, origin, dec, cpc>>
copyVars == <<heap, epA, epB, copied, touched, snapA, snapB, nmut>>
restoreVars == <<endpoints, endpoints0, kvstore, kvol, listErr, eps, idx, cur, ret, rpc, lock, tpc, tops>>
vars == <<rec, bytes, origin, dec, cpc,
          heap, epA, epB, copied, touched, snapA, snapB, nmut,
          endpoints, endpoints0, kvstore, kvol, listErr, eps, idx, cur, ret, rpc, lock, tpc, tops>>

-----------------------------------------------------------------------------
(* Values *)

\* A nil pointer, a nil interface, an unset optional field.
Nil == [nil |-> TRUE]

IsNil(v) == v = Nil

\* The string of one token.
Str(tok) == <<tok>>

bridgeEndpointPrefix == Str("bridge_endpoint")

-----------------------------------------------------------------------------
(* Stringification and parsing of addresses, MACs and ports *)

IPTokens == {"10.0.0.5", "fe80::1", "172.17.0.2", "0.0.0.0"}
MaskTokens == {"24", "64"}
HexTokens == {"02", "42", "ac", "11", "00", "05"}
ProtoTokens == {"tcp", "udp"}
PortTokens == {"80", "8080"}

\* net.IPNet.String(): "<ip>/<prefix length>".
IPNetString(a) == <<a.IP, "/", a.Mask>>

\* types.ParseCIDR: the address before the slash with the mask after it.
ParseCIDR(s) ==
  IF Len(s) = 3 /\ s[2] = "/" /\ s[1] \in IPTokens /\ s[3] \in MaskTokens
  THEN [ok |-> TRUE, v |-> [IP |-> s[1], Mask |-> s[3]]]
  ELSE [ok |-> FALSE, v |-> Nil]

RECURSIVE JoinColon(_)
\* The bytes in hex, a colon between two of them.
JoinColon(bs) ==
  IF Len(bs) = 0 THEN <<>>
  ELSE IF Len(bs) = 1 THEN <<bs[1]>>
  ELSE <<bs[1], ":">> \o JoinColon(Tail(bs))

\* net.HardwareAddr.String().
MacString(m) == JoinColon(m)

RECURSIVE SplitColon(_)
\* The inverse of JoinColon; <<>> stands for a string that is no colon-separated hex.
SplitColon(s) ==
  IF Len(s) = 0 THEN <<>>
  ELSE IF s[1] \notin HexTokens THEN <<>>
  ELSE IF Len(s) = 1 THEN <<s[1]>>
  ELSE IF s[2] # ":" THEN <<>>
  ELSE LET rest == SplitColon(Tail(Tail(s)))
       IN IF rest = <<>> THEN <<>> ELSE <<s[1]>> \o rest

\* net.ParseMAC: 6, 8 or 20 colon-separated bytes.
ParseMAC(s) ==
  LET bs == SplitColon(s)
  IN IF Len(bs) \in {6, 8, 20} THEN [ok |-> TRUE, v |-> bs]
                               ELSE [ok |-> FALSE, v |-> <<>>]

\* types.PortBinding.String(): "<proto>/<ip>:<port>/<host ip>:<host port>".
PortBindingString(p) ==
  <<p.Proto, "/", p.IP, ":", p.Port, "/", p.HostIP, ":", p.HostPort>>

\* types.PortBinding.FromString.
PortBindingFromString(s) ==
  IF /\ Len(s) = 9
     /\ s[2] = "/" /\ s[4] = ":" /\ s[6] = "/" /\ s[8] = ":"
     /\ s[1] \in ProtoTokens /\ s[3] \in IPTokens /\ s[5] \in PortTokens
     /\ s[7] \in IPTokens /\ s[9] \in PortTokens
  THEN [ok |-> TRUE,
        v |-> [Proto |-> s[1], IP |-> s[3], Port |-> s[5], HostIP |-> s[7], HostPort |-> s[9]]]
  ELSE [ok |-> FALSE, v |-> Nil]

\* types.TransportPort.String(): "<proto>/<port>".
TransportPortString(p) == <<p.Proto, "/", p.Port>>

\* types.TransportPort.FromString.
TransportPortFromString(s) ==
  IF Len(s) = 3 /\ s[2] = "/" /\ s[1] \in ProtoTokens /\ s[3] \in PortTokens
  THEN [ok |-> TRUE, v |-> [Proto |-> s[1], Port |-> s[3]]]
  ELSE [ok |-> FALSE, v |-> Nil]

\* for _, pm := range pms { out = append(out, pm.String()) }
PortBindingStrings(pms) == [i \in 1..Len(pms) |-> PortBindingString(pms[i])]

\* for _, ep := range eps { out = append(out, ep.String()) }
TransportPortStrings(tps) == [i \in 1..Len(tps) |-> TransportPortString(tps[i])]

RECURSIVE ParsePortBindings(_)
\* for _, str := range strs { pm.FromString(str) ... pms = append(pms, *pm) }:
\* the bindings, or the first string that is no binding.
ParsePortBindings(strs) ==
  IF Len(strs) = 0 THEN [ok |-> TRUE, v |-> <<>>, raw |-> <<>>]
  ELSE LET p == PortBindingFromString(strs[1])
       IN IF ~p.ok THEN [ok |-> FALSE, v |-> <<>>, raw |-> strs[1]]
          ELSE LET r == ParsePortBindings(Tail(strs))
               IN IF r.ok THEN [ok |-> TRUE, v |-> <<p.v>> \o r.v, raw |-> <<>>] ELSE r

RECURSIVE ParseTransportPorts(_)
\* The same loop over exposed ports.
ParseTransportPorts(strs) ==
  IF Len(strs) = 0 THEN [ok |-> TRUE, v |-> <<>>, raw |-> <<>>]
  ELSE LET p == TransportPortFromString(strs[1])
       IN IF ~p.ok THEN [ok |-> FALSE, v |-> <<>>, raw |-> strs[1]]
          ELSE LET r == ParseTransportPorts(Tail(strs))
               IN IF r.ok THEN [ok |-> TRUE, v |-> <<p.v>> \o r.v, raw |-> <<>>] ELSE r

-----------------------------------------------------------------------------
(* encoding/json over interface{} values *)

\* Go values as interface{}: the field t is the dynamic type.
NilIface == [t |-> "nil"]
GoString(s) == [t |-> "string", v |-> s]
GoStrings(ss) == [t |-> "[]string", v |-> ss]
GoMap(m) == [t |-> "map[string]interface{}", v |-> m]

\* JSON documents.
JNull == [j |-> "null"]
JNum == [j |-> "num"]
JStr(s) == [j |-> "str", v |-> s]
JArr(xs) == [j |-> "arr", v |-> xs]
JObj(m) == [j |-> "obj", v |-> m]
JEmptyObj == JObj([k \in {} |-> JNull])

\* m[k] of a Go map: the zero value (a nil interface) for a key that is not there.
Lookup(m, k) == IF k \in DOMAIN m THEN m[k] ELSE NilIface

Has(m, k) == k \in DOMAIN m

\* m[k] = v
Put(m, k, v) == [x \in DOMAIN m \cup {k} |-> IF x = k THEN v ELSE m[x]]

EmptyMap == [k \in {} |-> NilIface]

-----------------------------------------------------------------------------
(* MarshalJSON *)

\* endpointConfiguration.MarshalJSON: the cMap it hands to json.Marshal.
endpointConfiguration_MarshalJSON(ec) ==
  LET m1 == IF Len(ec.MacAddress) # 0
            THEN Put(EmptyMap, "MacAddress", GoString(MacString(ec.MacAddress)))
            ELSE EmptyMap
      m2 == IF Len(ec.PortBindings) # 0
            THEN Put(m1, "PortBindings", GoStrings(PortBindingStrings(ec.PortBindings)))
            ELSE m1
      m3 == IF Len(ec.ExposedPorts) # 0
            THEN Put(m2, "ExposedPorts", GoStrings(TransportPortStrings(ec.ExposedPorts)))
            ELSE m2
  IN GoMap(m3)

\* containerConfiguration.MarshalJSON: the cMap it hands to json.Marshal.
containerConfiguration_MarshalJSON(cf) ==
  GoMap(Put(Put(EmptyMap, "ParentEndpoints", GoStrings(cf.ParentEndpoints)),
            "ChildEndpoints", GoStrings(cf.ChildEndpoints)))

RECURSIVE Marshal(_)
\* json.Marshal of an interface{} value.  A nil pointer and a nil slice encode as
\* null; a pointer to a Marshaler encodes as what its MarshalJSON returns.
Marshal(x) ==
  CASE x.t = "nil" -> JNull
    [] x.t = "string" -> JStr(x.v)
    [] x.t = "float64" -> JNum
    [] x.t = "[]string" ->
         IF Len(x.v) = 0 THEN JNull ELSE JArr([i \in 1..Len(x.v) |-> JStr(x.v[i])])
    [] x.t = "[]interface{}" -> JArr([i \in 1..Len(x.v) |-> Marshal(x.v[i])])
    [] x.t = "map[string]interface{}" -> JObj([k \in DOMAIN x.v |-> Marshal(x.v[k])])
    [] x.t = "*endpointConfiguration" ->
         IF IsNil(x.v) THEN JNull ELSE Marshal(endpointConfiguration_MarshalJSON(x.v))
    [] x.t = "*containerConfiguration" ->
         IF IsNil(x.v) THEN JNull ELSE Marshal(containerConfiguration_MarshalJSON(x.v))

\* bridgeEndpoint.MarshalJSON.
MarshalJSON(ep) ==
  LET m0 == Put(Put(EmptyMap, "id", GoString(ep.id)), "srcName", GoString(ep.srcName))
      m1 == IF ~IsNil(ep.addr) THEN Put(m0, "addr", GoString(IPNetString(ep.addr))) ELSE m0
      m2 == IF ~IsNil(ep.addrv6) THEN Put(m1, "addrv6", GoString(IPNetString(ep.addrv6))) ELSE m1
      m3 == IF Len(ep.macAddress) # 0
            THEN Put(m2, "macAddress", GoString(MacString(ep.macAddress))) ELSE m2
      m4 == Put(m3, "config", [t |-> "*endpointConfiguration", v |-> ep.config])
      m5 == Put(m4, "containerConfiguration",
                [t |-> "*containerConfiguration", v |-> ep.containerConfig])
      m6 == IF Len(ep.portMapping) # 0
            THEN Put(m5, "portMapping", GoStrings(PortBindingStrings(ep.portMapping))) ELSE m5
  IN Marshal(GoMap(m6))

\* bridgeEndpoint.Value(): json.Marshal(ep); MarshalJSON returns no error.
Value(ep) == MarshalJSON(ep)

-----------------------------------------------------------------------------
(* UnmarshalJSON *)

RECURSIVE Generic(_)
\* json.Unmarshal into an interface{}: a string for a JSON string, a float64 for a
\* number, a []interface{} for an array, a map[string]interface{} for an object,
\* nil for null.
Generic(d) ==
  CASE d.j = "null" -> NilIface
    [] d.j = "str" -> GoString(d.v)
    [] d.j = "num" -> [t |-> "float64"]
    [] d.j = "arr" -> [t |-> "[]interface{}", v |-> [i \in 1..Len(d.v) |-> Generic(d.v[i])]]
    [] d.j = "obj" -> GoMap([k \in DOMAIN d.v |-> Generic(d.v[k])])

\* json.Unmarshal(b, &m) with m a map[string]interface{}: an object fills the map,
\* null leaves it nil (every lookup then yields nil), anything else is an error.
UnmarshalMap(b) ==
  CASE b.j = "obj" -> [ok |-> TRUE, m |-> Generic(b).v]
    [] b.j = "null" -> [ok |-> TRUE, m |-> EmptyMap]
    [] OTHER -> [ok |-> FALSE, m |-> EmptyMap]

\* x.(string) does not panic.
IsString(x) == x.t = "string"

\* x.([]string) does not panic.
IsStrings(x) == x.t = "[]string"

\* Errors: the one json.Unmarshal returns, and types.InternalErrorf with the
\* field its message is about and the raw string it prints.
NoErr == [kind |-> "nil", field |-> "", raw |-> <<>>]
JsonErr == [kind |-> "json", field |-> "", raw |-> <<>>]
InternalErrorf(f, r) == [kind |-> "InternalError", field |-> f, raw |-> r]

\* How a call ends: it returns nil ("ok"), returns an error, or panics at a line.
Ok(v) == [out |-> "ok", v |-> v, err |-> NoErr, line |-> 0]
Err(v, e) == [out |-> "error", v |-> v, err |-> e, line |-> 0]
Panic(v, l) == [out |-> "panic", v |-> v, err |-> NoErr, line |-> l]

\* The zero value of endpointConfiguration.
ZeroEpConfig == [MacAddress |-> <<>>, PortBindings |-> <<>>, ExposedPorts |-> <<>>]

\* The zero value of containerConfiguration.
ZeroContainerConfig == [ParentEndpoints |-> <<>>, ChildEndpoints |-> <<>>]

\* endpointConfiguration.UnmarshalJSON, lines 272-282: ExposedPorts.
ec_ExposedPorts(ec, cMap) ==
  IF Has(cMap, "ExposedPorts")
  THEN IF ~IsStrings(cMap["ExposedPorts"]) THEN Panic(ec, 273)
       ELSE LET r == ParseTransportPorts(cMap["ExposedPorts"].v)
            IN IF ~r.ok THEN Err(ec, InternalErrorf("ExposedPorts", r.raw))
               ELSE Ok([ec EXCEPT !.ExposedPorts = r.v])
  ELSE Ok([ec EXCEPT !.ExposedPorts = <<>>])

\* endpointConfiguration.UnmarshalJSON, lines 261-270: PortBindings, then the rest.
ec_PortBindings(ec, cMap) ==
  IF Has(cMap, "PortBindings")
  THEN IF ~IsStrings(cMap["PortBindings"]) THEN Panic(ec, 262)
       ELSE LET r == ParsePortBindings(cMap["PortBindings"].v)
            IN IF ~r.ok THEN Err(ec, InternalErrorf("PortBindings", r.raw))
               ELSE ec_ExposedPorts([ec EXCEPT !.PortBindings = r.v], cMap)
  ELSE ec_ExposedPorts([ec EXCEPT !.PortBindings = <<>>], cMap)

\* endpointConfiguration.UnmarshalJSON on a freshly allocated receiver.
endpointConfiguration_UnmarshalJSON(ec, b) ==
  LET u == UnmarshalMap(b)
      cMap == u.m
  IN IF ~u.ok THEN Err(ec, JsonErr)
     ELSE IF Has(cMap, "MacAddress")
     THEN IF ~IsString(cMap["MacAddress"]) THEN Panic(ec, 257)
          ELSE LET r == ParseMAC(cMap["MacAddress"].v)
               IN IF ~r.ok THEN Err(ec, InternalErrorf("MacAddress", cMap["MacAddress"].v))
                  ELSE ec_PortBindings([ec EXCEPT !.MacAddress = r.v], cMap)
     ELSE ec_PortBindings(ec, cMap)

\* containerConfiguration.UnmarshalJSON on a freshly allocated receiver.
containerConfiguration_UnmarshalJSON(cf, b) ==
  LET u == UnmarshalMap(b)
      cMap == u.m
  IN IF ~u.ok THEN Err(cf, JsonErr)
     ELSE IF ~IsStrings(Lookup(cMap, "ParentEndpoints")) THEN Panic(cf, 212)
     ELSE IF ~IsStrings(Lookup(cMap, "ChildEndpoints"))
          THEN Panic([cf EXCEPT !.ParentEndpoints = cMap["ParentEndpoints"].v], 213)
     ELSE Ok([ParentEndpoints |-> cMap["ParentEndpoints"].v,
              ChildEndpoints |-> cMap["ChildEndpoints"].v])

\* json.Unmarshal(data, &cfg) with cfg a nil *endpointConfiguration: null leaves the
\* pointer nil, anything else allocates the struct and calls its UnmarshalJSON.
UnmarshalEpConfigPtr(data) ==
  IF data.j = "null" THEN Ok(Nil)
  ELSE endpointConfiguration_UnmarshalJSON(ZeroEpConfig, data)

\* json.Unmarshal(data, &ccfg) with ccfg a nil *containerConfiguration.
UnmarshalContainerConfigPtr(data) ==
  IF data.j = "null" THEN Ok(Nil)
  ELSE containerConfiguration_UnmarshalJSON(ZeroContainerConfig, data)

\* bridgeEndpoint.UnmarshalJSON, lines 119-129: portMapping and the return.
ep_portMapping(ep, nMap) ==
  IF Has(nMap, "portMapping")
  THEN IF ~IsStrings(nMap["portMapping"]) THEN Panic(ep, 120)
       ELSE LET r == ParsePortBindings(nMap["portMapping"].v)
            IN IF ~r.ok THEN Err(ep, InternalErrorf("portMapping", r.raw))
               ELSE Ok([ep EXCEPT !.portMapping = r.v])
  ELSE Ok([ep EXCEPT !.portMapping = <<>>])

\* bridgeEndpoint.UnmarshalJSON, lines 111-118: containerConfiguration.
ep_containerConfig(ep, nMap) ==
  LET containerConfigData == Marshal(Lookup(nMap, "containerConfiguration"))
      r == UnmarshalContainerConfigPtr(containerConfigData)
  IN CASE r.out = "panic" -> Panic(ep, r.line)
       [] r.out = "error" -> Err(ep, InternalErrorf("containerConfiguration", <<>>))
       [] OTHER -> ep_portMapping([ep EXCEPT !.containerConfig = r.v], nMap)

\* bridgeEndpoint.UnmarshalJSON, lines 103-110: config.
ep_config(ep, nMap) ==
  LET configData == Marshal(Lookup(nMap, "config"))
      r == UnmarshalEpConfigPtr(configData)
  IN CASE r.out = "panic" -> Panic(ep, r.line)
       [] r.out = "error" -> Err(ep, InternalErrorf("config", <<>>))
       [] OTHER -> ep_containerConfig([ep EXCEPT !.config = r.v], nMap)

\* bridgeEndpoint.UnmarshalJSON, lines 98-102: macAddress.
ep_macAddress(ep, nMap) ==
  IF Has(nMap, "macAddress")
  THEN IF ~IsString(nMap["macAddress"]) THEN Panic(ep, 99)
       ELSE LET r == ParseMAC(nMap["macAddress"].v)
            IN IF ~r.ok
               THEN Err([ep EXCEPT !.macAddress = r.v],
                        InternalErrorf("macAddress", nMap["macAddress"].v))
               ELSE ep_config([ep EXCEPT !.macAddress = r.v], nMap)
  ELSE ep_config(ep, nMap)

\* bridgeEndpoint.UnmarshalJSON, lines 93-97: addrv6.
ep_addrv6(ep, nMap) ==
  IF Has(nMap, "addrv6")
  THEN IF ~IsString(nMap["addrv6"]) THEN Panic(ep, 94)
       ELSE LET r == ParseCIDR(nMap["addrv6"].v)
            IN IF ~r.ok
               THEN Err([ep EXCEPT !.addrv6 = r.v], InternalErrorf("addrv6", nMap["addrv6"].v))
               ELSE ep_macAddress([ep EXCEPT !.addrv6 = r.v], nMap)
  ELSE ep_macAddress(ep, nMap)

\* bridgeEndpoint.UnmarshalJSON, lines 88-92: addr.
ep_addr(ep, nMap) ==
  IF Has(nMap, "addr")
  THEN IF ~IsString(nMap["addr"]) THEN Panic(ep, 89)
       ELSE LET r == ParseCIDR(nMap["addr"].v)
            IN IF ~r.ok
               THEN Err([ep EXCEPT !.addr = r.v], InternalErrorf("addr", nMap["addr"].v))
               ELSE ep_addrv6([ep EXCEPT !.addr = r.v], nMap)
  ELSE ep_addrv6(ep, nMap)

\* bridgeEndpoint.UnmarshalJSON.
UnmarshalJSON(ep, b) ==
  LET u == UnmarshalMap(b)
      nMap == u.m
  IN IF ~u.ok THEN Err(ep, JsonErr)
     ELSE IF ~IsString(Lookup(nMap, "id")) THEN Panic(ep, 86)
     ELSE IF ~IsString(Lookup(nMap, "srcName"))
          THEN Panic([ep EXCEPT !.id = nMap["id"].v], 87)
     ELSE ep_addr([ep EXCEPT !.id = nMap["id"].v, !.srcName = nMap["srcName"].v], nMap)

\* bridgeEndpoint.New(): a zero record bound to the same network.
New(network) ==
  [network |-> network, id |-> <<>>, srcName |-> <<>>, addr |-> Nil, addrv6 |-> Nil,
   macAddress |-> <<>>, config |-> Nil, containerConfig |-> Nil, portMapping |-> <<>>,
   dbIndex |-> 0, dbExists |-> FALSE]

\* bridgeEndpoint.SetValue: json.Unmarshal(value, ep) calls ep.UnmarshalJSON(value).
SetValue(ep, value) == UnmarshalJSON(ep, value)

-----------------------------------------------------------------------------
(* The codec's inputs *)

\* Longest port-mapping, port-binding, exposed-port and linked-endpoint list.
MaxLen == 1

Addr4 == [IP |-> "10.0.0.5", Mask |-> "24"]
Addr6 == [IP |-> "fe80::1", Mask |-> "64"]
Mac1 == <<"02", "42", "ac", "11", "00", "05">>
PB1 == [Proto |-> "tcp", IP |-> "172.17.0.2", Port |-> "80", HostIP |-> "0.0.0.0", HostPort |-> "8080"]
TP1 == [Proto |-> "tcp", Port |-> "80"]

\* The sequences over S of length at most n.
SeqUpTo(S, n) == UNION {[1..k -> S] : k \in 0..n}

EpIds == {Str("ep1"), Str("ep2")}

EpConfigs ==
  {Nil} \cup [MacAddress : {<<>>, Mac1},
              PortBindings : SeqUpTo({PB1}, MaxLen),
              ExposedPorts : SeqUpTo({TP1}, MaxLen)]

ContainerConfigs ==
  {Nil} \cup [ParentEndpoints : SeqUpTo({Str("ep2")}, MaxLen),
              ChildEndpoints : SeqUpTo({Str("ep3")}, MaxLen)]

\* The valid endpoint records of network "N".
Records ==
  [network : {"N"}, id : EpIds, srcName : {Str("veth0")},
   addr : {Nil, Addr4}, addrv6 : {Nil, Addr6}, macAddress : {<<>>, Mac1},
   config : EpConfigs, containerConfig : ContainerConfigs,
   portMapping : SeqUpTo({PB1}, MaxLen),
   dbIndex : {0}, dbExists : {FALSE}]

\* A key that a stored document does not have.
Absent == [j |-> "absent"]

DocKeys == {"id", "srcName", "addr", "addrv6", "macAddress", "config",
            "containerConfiguration", "portMapping"}

\* The JSON object with the keys of c that are not Absent.
MkDoc(c) == JObj([k \in {x \in DocKeys : c[x] # Absent} |-> c[k]])

NotACidr == Str("not-a-cidr")
NotAMac == <<"zz", ":", "02">>
NotABinding == Str("80")

\* Documents found in the store: well-formed ones and ones a writer other than
\* Value() left there.
RawDocs ==
  {MkDoc([id |-> i, srcName |-> s, addr |-> a, addrv6 |-> a6, macAddress |-> m,
          config |-> cf, containerConfiguration |-> cc, portMapping |-> pm]) :
     i \in {Absent, JStr(Str("ep1")), JNum, JNull},
     s \in {Absent, JStr(Str("veth0")), JNum},
     a \in {Absent, JStr(IPNetString(Addr4)), JStr(NotACidr)},
     a6 \in {Absent, JStr(IPNetString(Addr6)), JStr(NotACidr)},
     m \in {Absent, JStr(MacString(Mac1)), JStr(NotAMac)},
     cf \in {Absent, JNull, JEmptyObj},
     cc \in {Absent, JNull, JEmptyObj},
     pm \in {Absent, JArr(<<JStr(PortBindingString(PB1))>>), JArr(<<JStr(NotABinding)>>)}}

\* The value of key k in stored document d, Absent when it has none.
DocGet(d, k) == IF d.j = "obj" /\ k \in DOMAIN d.v THEN d.v[k] ELSE Absent

IdleRec == New("N")
IdleDec == Ok(IdleRec)

InitCopyIdle ==
  /\ heap = <<>> /\ epA = Nil /\ epB = Nil /\ copied = FALSE /\ touched = {}
  /\ snapA = Nil /\ snapB = Nil /\ nmut = 0

InitRestoreIdle ==
  /\ endpoints = <<>> /\ endpoints0 = <<>> /\ kvstore = {} /\ kvol = <<>> /\ listErr = "nil"
  /\ eps = <<>> /\ idx = 0 /\ cur = Nil /\ ret = "nil" /\ rpc = "idle" /\ lock = "free"
  /\ tpc = "idle" /\ tops = 0

-----------------------------------------------------------------------------
(* SpecCodec: a record is written with Value() and read back with SetValue(),  *)
(* or a document already in the store is read with SetValue().                  *)

InitCodec ==
  /\ \/ /\ rec \in Records
        /\ bytes = JNull
        /\ origin = "none"
        /\ cpc = "new"
     \/ /\ rec = IdleRec
        /\ bytes \in RawDocs
        /\ origin = "raw"
        /\ cpc = "stored"
  /\ dec = IdleDec
  /\ InitCopyIdle
  /\ InitRestoreIdle

\* The store writes the record: Value().
PutValue ==
  /\ cpc = "new"
  /\ bytes' = Value(rec)
  /\ origin' = "encoded"
  /\ cpc' = "stored"
  /\ UNCHANGED <<rec, dec, copyVars, restoreVars>>

\* The store reads the record: SetValue() on a record from New().
GetValue ==
  /\ cpc = "stored"
  /\ dec' = SetValue(New(rec.network), bytes)
  /\ cpc' = "decoded"
  /\ UNCHANGED <<rec, bytes, origin, copyVars, restoreVars>>

NextCodec == PutValue \/ GetValue

SpecCodec == InitCodec /\ [][NextCodec]_vars

\* The attributes the codec carries.
SameFields(e, f) ==
  /\ e.id = f.id /\ e.srcName = f.srcName
  /\ e.addr = f.addr /\ e.addrv6 = f.addrv6 /\ e.macAddress = f.macAddress
  /\ e.config = f.config /\ e.containerConfig = f.containerConfig
  /\ e.portMapping = f.portMapping

-----------------------------------------------------------------------------
(* Records in memory *)

(* A cell of the heap is one Go object that can be shared and changed in place:   *)
(*   bytes   the backing array of a net.IP, net.IPMask or net.HardwareAddr;       *)
(*   ipnet   a net.IPNet struct: two byte slices;                                 *)
(*   pbs     the backing array of a []types.PortBinding; an element is a struct   *)
(*           with the byte slices IP and HostIP;                                  *)
(*   tps     the backing array of a []types.TransportPort;                        *)
(*   strs    the backing array of a []string;                                     *)
(*   epcfg   an endpointConfiguration struct;                                     *)
(*   ccfg    a containerConfiguration struct.                                     *)
(* A pointer or slice is the index of its cell, 0 when nil.                       *)

\* Number of in-place changes made after CopyTo.
MaxMutations == 2

\* new(T) or make([]T, n): the heap with one more cell, and the reference to it.
Alloc(h, c) == [h |-> Append(h, c), r |-> Len(h) + 1]

NilRef(h) == [h |-> h, r |-> 0]

\* A byte slice holding v, nil when v is empty.
NewBytes(h, v) == IF v = <<>> THEN NilRef(h) ELSE Alloc(h, [k |-> "bytes", v |-> v])

\* A *net.IPNet holding address a.
NewIPNet(h, a) ==
  IF IsNil(a) THEN NilRef(h)
  ELSE LET i == NewBytes(h, Str(a.IP))
           m == NewBytes(i.h, Str(a.Mask))
       IN Alloc(m.h, [k |-> "ipnet", IP |-> i.r, Mask |-> m.r])

RECURSIVE NewPortBindingElems(_, _)
\* The structs of a []types.PortBinding, each with its own IP and HostIP bytes.
NewPortBindingElems(h, pbs) ==
  IF pbs = <<>> THEN [h |-> h, v |-> <<>>]
  ELSE LET i == NewBytes(h, Str(pbs[1].IP))
           o == NewBytes(i.h, Str(pbs[1].HostIP))
           rest == NewPortBindingElems(o.h, Tail(pbs))
       IN [h |-> rest.h,
           v |-> <<[Proto |-> pbs[1].Proto, IP |-> i.r, Port |-> pbs[1].Port,
                    HostIP |-> o.r, HostPort |-> pbs[1].HostPort]>> \o rest.v]

\* A []types.PortBinding, nil when empty.
NewPortBindings(h, pbs) ==
  IF pbs = <<>> THEN NilRef(h)
  ELSE LET e == NewPortBindingElems(h, pbs) IN Alloc(e.h, [k |-> "pbs", v |-> e.v])

\* A slice of values without pointers ([]types.TransportPort, []string), nil when empty.
NewFlatSlice(h, kind, xs) ==
  IF xs = <<>> THEN NilRef(h) ELSE Alloc(h, [k |-> kind, v |-> xs])

\* An *endpointConfiguration holding c.
NewEpConfig(h, c) ==
  IF IsNil(c) THEN NilRef(h)
  ELSE LET m == NewBytes(h, c.MacAddress)
           p == NewPortBindings(m.h, c.PortBindings)
           e == NewFlatSlice(p.h, "tps", c.ExposedPorts)
       IN Alloc(e.h, [k |-> "epcfg", MacAddress |-> m.r, PortBindings |-> p.r,
                      ExposedPorts |-> e.r])

\* A *containerConfiguration holding c.
NewContainerConfig(h, c) ==
  IF IsNil(c) THEN NilRef(h)
  ELSE LET a == NewFlatSlice(h, "strs", c.ParentEndpoints)
           b == NewFlatSlice(a.h, "strs", c.ChildEndpoints)
       IN Alloc(b.h, [k |-> "ccfg", ParentEndpoints |-> a.r, ChildEndpoints |-> b.r])

\* A bridgeEndpoint struct holding record r, every pointer and slice of it its own.
NewEndpoint(h, r) ==
  LET a == NewIPNet(h, r.addr)
      a6 == NewIPNet(a.h, r.addrv6)
      m == NewBytes(a6.h, r.macAddress)
      c == NewEpConfig(m.h, r.config)
      cc == NewContainerConfig(c.h, r.containerConfig)
      pm == NewPortBindings(cc.h, r.portMapping)
  IN [ep |-> [network |-> r.network, id |-> r.id, srcName |-> r.srcName,
              addr |-> a.r, addrv6 |-> a6.r, macAddress |-> m.r, config |-> c.r,
              containerConfig |-> cc.r, portMapping |-> pm.r,
              dbIndex |-> r.dbIndex, dbExists |-> r.dbExists],
      h |-> pm.h]

\* The contents of a byte slice.
ValBytes(h, r) == IF r = 0 THEN <<>> ELSE h[r].v

ValIPNet(h, r) ==
  IF r = 0 THEN Nil ELSE [IP |-> ValBytes(h, h[r].IP), Mask |-> ValBytes(h, h[r].Mask)]

ValPortBindings(h, r) ==
  IF r = 0 THEN <<>>
  ELSE [i \in 1..Len(h[r].v) |->
          [Proto |-> h[r].v[i].Proto, IP |-> ValBytes(h, h[r].v[i].IP),
           Port |-> h[r].v[i].Port, HostIP |-> ValBytes(h, h[r].v[i].HostIP),
           HostPort |-> h[r].v[i].HostPort]]

ValFlatSlice(h, r) == IF r = 0 THEN <<>> ELSE h[r].v

ValEpConfig(h, r) ==
  IF r = 0 THEN Nil
  ELSE [MacAddress |-> ValBytes(h, h[r].MacAddress),
        PortBindings |-> ValPortBindings(h, h[r].PortBindings),
        ExposedPorts |-> ValFlatSlice(h, h[r].ExposedPorts)]

ValContainerConfig(h, r) ==
  IF r = 0 THEN Nil
  ELSE [ParentEndpoints |-> ValFlatSlice(h, h[r].ParentEndpoints),
        ChildEndpoints |-> ValFlatSlice(h, h[r].ChildEndpoints)]

\* Everything a reader of the record sees: every field followed to its bytes.
DeepVal(h, ep) ==
  [id |-> ep.id, srcName |-> ep.srcName,
   addr |-> ValIPNet(h, ep.addr), addrv6 |-> ValIPNet(h, ep.addrv6),
   macAddress |-> ValBytes(h, ep.macAddress),
   config |-> ValEpConfig(h, ep.config),
   containerConfig |-> ValContainerConfig(h, ep.containerConfig),
   portMapping |-> ValPortBindings(h, ep.portMapping),
   dbIndex |-> ep.dbIndex, dbExists |-> ep.dbExists]

\* The references a cell holds.
CellRefs(c) ==
  (CASE c.k = "ipnet" -> {c.IP, c.Mask}
     [] c.k = "pbs" -> UNION {{c.v[i].IP, c.v[i].HostIP} : i \in 1..Len(c.v)}
     [] c.k = "epcfg" -> {c.MacAddress, c.PortBindings, c.ExposedPorts}
     [] c.k = "ccfg" -> {c.ParentEndpoints, c.ChildEndpoints}
     [] OTHER -> {}) \ {0}

\* The cells reachable from a bridgeEndpoint struct: at most three pointers deep
\* (config, its port bindings, a binding's address bytes).
Reach(h, ep) ==
  LET l1 == {ep.addr, ep.addrv6, ep.macAddress, ep.config, ep.containerConfig,
             ep.portMapping} \ {0}
      l2 == UNION {CellRefs(h[r]) : r \in l1}
      l3 == UNION {CellRefs(h[r]) : r \in l2}
  IN l1 \cup l2 \cup l3

-----------------------------------------------------------------------------
(* CopyTo *)

\* types.GetMacCopy: nil for nil, else a new array with the same bytes.
GetMacCopy(h, r) == IF r = 0 THEN NilRef(h) ELSE Alloc(h, [k |-> "bytes", v |-> h[r].v])

\* types.GetIPCopy: nil for nil, else a new array with the same bytes.
GetIPCopy(h, r) == IF r = 0 THEN NilRef(h) ELSE Alloc(h, [k |-> "bytes", v |-> h[r].v])

\* types.GetIPNetCopy: nil for nil, else a new IPNet over copies of IP and Mask.
GetIPNetCopy(h, r) ==
  IF r = 0 THEN NilRef(h)
  ELSE LET m == Alloc(h, [k |-> "bytes", v |-> ValBytes(h, h[r].Mask)])
           i == GetIPCopy(m.h, h[r].IP)
       IN Alloc(i.h, [k |-> "ipnet", IP |-> i.r, Mask |-> m.r])

\* dst = make([]T, len(src)); copy(dst, src): a new array whose elements are the
\* source's elements, a struct element copied field by field.
MakeAndCopy(h, r, kind) == Alloc(h, [k |-> kind, v |-> IF r = 0 THEN <<>> ELSE h[r].v])

\* endpointConfiguration.CopyTo.
endpointConfiguration_CopyTo(h, epc, dstEpc) ==
  LET m == GetMacCopy(h, h[epc].MacAddress)
      p == MakeAndCopy(m.h, h[epc].PortBindings, "pbs")
      e == MakeAndCopy(p.h, h[epc].ExposedPorts, "tps")
  IN [e.h EXCEPT ![dstEpc] = [k |-> "epcfg", MacAddress |-> m.r, PortBindings |-> p.r,
                              ExposedPorts |-> e.r]]

\* containerConfiguration.CopyTo.
containerConfiguration_CopyTo(h, cc, dstCc) ==
  LET a == MakeAndCopy(h, h[cc].ParentEndpoints, "strs")
      b == MakeAndCopy(a.h, h[cc].ChildEndpoints, "strs")
  IN [b.h EXCEPT ![dstCc] = [k |-> "ccfg", ParentEndpoints |-> a.r, ChildEndpoints |-> b.r]]

\* bridgeEndpoint.CopyTo: the heap and the destination struct after the call.
CopyTo(h, ep, dstEp) ==
  LET a == GetIPNetCopy(h, ep.addr)
      a6 == GetIPNetCopy(a.h, ep.addrv6)
      m == GetMacCopy(a6.h, ep.macAddress)
      c == IF ep.config # 0
           THEN LET n == Alloc(m.h, [k |-> "epcfg", MacAddress |-> 0, PortBindings |-> 0,
                                     ExposedPorts |-> 0])
                IN [h |-> endpointConfiguration_CopyTo(n.h, ep.config, n.r), r |-> n.r]
           ELSE [h |-> m.h, r |-> dstEp.config]
      cc == IF ep.containerConfig # 0
            THEN LET n == Alloc(c.h, [k |-> "ccfg", ParentEndpoints |-> 0,
                                      ChildEndpoints |-> 0])
                 IN [h |-> containerConfiguration_CopyTo(n.h, ep.containerConfig, n.r),
                     r |-> n.r]
            ELSE [h |-> c.h, r |-> dstEp.containerConfig]
      pm == MakeAndCopy(cc.h, ep.portMapping, "pbs")
  IN [ep |-> [dstEp EXCEPT !.id = ep.id, !.srcName = ep.srcName, !.addr = a.r,
                           !.addrv6 = a6.r, !.macAddress = m.r, !.config = c.r,
                           !.containerConfig = cc.r, !.portMapping = pm.r],
      h |-> pm.h]

\* bridgeEndpoint.SetIndex.
SetIndex(ep, index) == [ep EXCEPT !.dbIndex = index, !.dbExists = TRUE]

\* bridgeEndpoint.Index.
Index(ep) == ep.dbIndex

\* bridgeEndpoint.Exists.
Exists(ep) == ep.dbExists

-----------------------------------------------------------------------------
(* Restore: populateEndpoints *)

\* Number of endpoint identifiers of a network.
MaxEndpoints == 2

\* Number of table operations the runtime thread makes.
MaxRuntimeOps == 2

IdPool == <<"ep1", "ep2", "ep3", "ep4">>

RestoreIds == {Str(IdPool[i]) : i \in 1..MaxEndpoints}

\* bridgeEndpoint.Key(): (record kind, network id, endpoint id).
Key(ep) == <<bridgeEndpointPrefix, Str(ep.network), ep.id>>

\* bridgeEndpoint.KeyPrefix(): (record kind, network id).
KeyPrefix(ep) == <<bridgeEndpointPrefix, Str(ep.network)>>

\* The keys the store may hold: the endpoints of network N and one of network M.
StoreKeys ==
  {Key([network |-> "N", id |-> i]) : i \in RestoreIds}
    \cup {Key([network |-> "M", id |-> Str(IdPool[1])])}

\* A record as the table holds it; src tells who made it.
TableRecord(i, net, src) == [id |-> i, network |-> net, srcName |-> Str(src)]

\* Key k starts with prefix p.
HasPrefix(k, p) == Len(p) <= Len(k) /\ \A i \in 1..Len(p) : k[i] = p[i]

\* The orderings of the finite set S.
Orderings(S) ==
  {q \in [1..Cardinality(S) -> S] : \A i, j \in 1..Cardinality(S) : q[i] = q[j] => i = j}

\* driver.store.List(prefix, prototype): what the call may return.  Without error,
\* the records stored under the prefix, in any order, bound to the prototype's
\* network or not; ErrKeyNotFound when no key has the prefix; any other error,
\* with or without records beside it.
StoreList(prefix, prototype) ==
  LET found == {k \in kvstore : HasPrefix(k, prefix)}
      lists == {[i \in 1..Len(q) |-> TableRecord(q[i][3], net, "stored")] :
                  q \in Orderings(found), net \in {prototype.network, "none"}}
  IN {[kvol |-> l, err |-> "nil"] : l \in lists}
       \cup (IF found = {} THEN {[kvol |-> <<>>, err |-> "ErrKeyNotFound"]} ELSE {})
       \cup {[kvol |-> l, err |-> "other"] : l \in lists \cup {<<>>}}

\* A mutant: every error of List is swallowed and its records returned.
getEndpointsFromStore_SwallowAll(l, err) == [epl |-> l, err |-> "nil"]

\* A mutant: ErrKeyNotFound is returned to the caller like any other error.
getEndpointsFromStore_NotFoundFatal(l, err) ==
  IF err # "nil" THEN [epl |-> <<>>, err |-> err] ELSE [epl |-> l, err |-> "nil"]

\* bridgeNetwork.getEndpointsFromStore, after List has returned (l, err).
getEndpointsFromStore(l, err) ==
  IF err # "nil" /\ err # "ErrKeyNotFound"
  THEN [epl |-> <<>>, err |-> err]
  ELSE [epl |-> l, err |-> "nil"]

\* populateEndpoints, line 15: getEndpointsFromStore builds the prototype and
\* calls List; the store I/O is in progress.
CallList ==
  /\ rpc = "start"
  /\ rpc' = "listing"
  /\ UNCHANGED <<endpoints, endpoints0, kvstore, kvol, listErr, eps, idx, cur, ret, lock,
                 tpc, tops, codecVars, copyVars>>

\* Lines 33-47 and 15-18: List returns, getEndpointsFromStore returns, and
\* populateEndpoints returns the error if there is one.
ListReturn ==
  /\ rpc = "listing"
  /\ \E o \in StoreList(KeyPrefix([network |-> "N"]), [network |-> "N"]) :
       LET r == getEndpointsFromStore(o.kvol, o.err)
       IN /\ kvol' = o.kvol
          /\ listErr' = o.err
          /\ IF r.err # "nil"
             THEN /\ ret' = r.err
                  /\ rpc' = "done"
                  /\ UNCHANGED <<eps, idx>>
             ELSE /\ eps' = r.epl
                  /\ idx' = 1
                  /\ rpc' = "loop"
                  /\ UNCHANGED ret
  /\ UNCHANGED <<endpoints, endpoints0, kvstore, cur, lock, tpc, tops, codecVars, copyVars>>

\* A mutant: the loop does not bind the record to the network.
RangeNext_NoBind ==
  /\ rpc = "loop"
  /\ IF idx <= Len(eps)
     THEN /\ cur' = eps[idx]
          /\ rpc' = "lock"
          /\ UNCHANGED ret
     ELSE /\ ret' = "nil"
          /\ rpc' = "done"
          /\ UNCHANGED cur
  /\ UNCHANGED <<endpoints, endpoints0, kvstore, kvol, listErr, eps, idx, lock, tpc, tops,
                 codecVars, copyVars>>

\* Lines 19-20 and 26: the range loop takes the next record and binds it to n, or
\* ends and populateEndpoints returns nil.
RangeNext ==
  /\ rpc = "loop"
  /\ IF idx <= Len(eps)
     THEN /\ cur' = [eps[idx] EXCEPT !.network = "N"]
          /\ rpc' = "lock"
          /\ UNCHANGED ret
     ELSE /\ ret' = "nil"
          /\ rpc' = "done"
          /\ UNCHANGED cur
  /\ UNCHANGED <<endpoints, endpoints0, kvstore, kvol, listErr, eps, idx, lock, tpc, tops,
                 codecVars, copyVars>>

\* A mutant: the insert is made without taking the lock.
PopLock_NoLock ==
  /\ rpc = "lock"
  /\ rpc' = "insert"
  /\ UNCHANGED <<endpoints, endpoints0, kvstore, kvol, listErr, eps, idx, cur, ret, lock,
                 tpc, tops, codecVars, copyVars>>

\* Line 22: n.Lock().
PopLock ==
  /\ rpc = "lock"
  /\ lock = "free"
  /\ lock' = "restore"
  /\ rpc' = "insert"
  /\ UNCHANGED <<endpoints, endpoints0, kvstore, kvol, listErr, eps, idx, cur, ret,
                 tpc, tops, codecVars, copyVars>>

\* Line 23: n.endpoints[ep.id] = ep.
PopInsert ==
  /\ rpc = "insert"
  /\ endpoints' = Put(endpoints, cur.id, cur)
  /\ rpc' = "unlock"
  /\ UNCHANGED <<endpoints0, kvstore, kvol, listErr, eps, idx, cur, ret, lock,
                 tpc, tops, codecVars, copyVars>>

\* Line 24: n.Unlock(), and the loop goes on.
PopUnlock ==
  /\ rpc = "unlock"
  /\ lock' = "free"
  /\ idx' = idx + 1
  /\ rpc' = "loop"
  /\ UNCHANGED <<endpoints, endpoints0, kvstore, kvol, listErr, eps, cur, ret,
                 tpc, tops, codecVars, copyVars>>

populateEndpoints == CallList \/ ListReturn \/ RangeNext \/ PopLock \/ PopInsert \/ PopUnlock

\* The runtime path: endpoint create and delete take the network's lock around
\* their change of the table.
RtLock ==
  /\ tpc = "ready"
  /\ tops < MaxRuntimeOps
  /\ lock = "free"
  /\ lock' = "runtime"
  /\ tpc' = "crit"
  /\ UNCHANGED <<endpoints, endpoints0, kvstore, kvol, listErr, eps, idx, cur, ret, rpc,
                 tops, codecVars, copyVars>>

RtCreate ==
  /\ tpc = "crit"
  /\ \E i \in RestoreIds : endpoints' = Put(endpoints, i, TableRecord(i, "N", "runtime"))
  /\ tpc' = "release"
  /\ UNCHANGED <<endpoints0, kvstore, kvol, listErr, eps, idx, cur, ret, rpc, lock,
                 tops, codecVars, copyVars>>

RtDelete ==
  /\ tpc = "crit"
  /\ \E i \in DOMAIN endpoints : endpoints' = [x \in DOMAIN endpoints \ {i} |-> endpoints[x]]
  /\ tpc' = "release"
  /\ UNCHANGED <<endpoints0, kvstore, kvol, listErr, eps, idx, cur, ret, rpc, lock,
                 tops, codecVars, copyVars>>

RtUnlock ==
  /\ tpc = "release"
  /\ lock' = "free"
  /\ tpc' = "ready"
  /\ tops' = tops + 1
  /\ UNCHANGED <<endpoints, endpoints0, kvstore, kvol, listErr, eps, idx, cur, ret, rpc,
                 codecVars, copyVars>>

runtime == RtLock \/ RtCreate \/ RtDelete \/ RtUnlock

InitCodecIdle ==
  /\ rec = IdleRec /\ bytes = JNull /\ origin = "none" /\ dec = IdleDec /\ cpc = "idle"

\* populateEndpoints is called on network N: some table, some store contents.
InitTable ==
  /\ \E S \in SUBSET RestoreIds :
       endpoints = [i \in S |-> TableRecord(i, "N", "old")]
  /\ endpoints0 = endpoints
  /\ kvstore \in SUBSET StoreKeys
  /\ kvol = <<>> /\ listErr = "nil" /\ eps = <<>> /\ idx = 0 /\ cur = Nil
  /\ ret = "nil" /\ rpc = "start" /\ lock = "free" /\ tops = 0
  /\ InitCodecIdle
  /\ InitCopyIdle

InitRestore == InitTable /\ tpc = "none"

NextRestore == populateEndpoints

SpecRestore == InitRestore /\ [][NextRestore]_vars

InitConc == InitTable /\ tpc = "ready"

NextConc == populateEndpoints \/ runtime

SpecConc == InitConc /\ [][NextConc]_vars

-----------------------------------------------------------------------------
(* SpecCopy: record A is copied to record B, and then either is changed in place *)

FullEpConfig == [MacAddress |-> Mac1, PortBindings |-> <<PB1>>, ExposedPorts |-> <<TP1>>]

FullContainerConfig ==
  [ParentEndpoints |-> <<Str("ep2")>>, ChildEndpoints |-> <<Str("ep3")>>]

\* The records copied: addresses all set or all unset, each sub-configuration set
\* or nil, one port mapping or none.
CopySources ==
  {r \in Records :
     /\ r.id = Str("ep1")
     /\ (IsNil(r.addr) <=> IsNil(r.addrv6)) /\ (IsNil(r.addr) <=> r.macAddress = <<>>)
     /\ r.config \in {Nil, FullEpConfig}
     /\ r.containerConfig \in {Nil, FullContainerConfig}}

\* What the destination holds before the copy: a record from New(), or another
\* endpoint's record.
CopyDests ==
  {New("N"),
   [network |-> "N", id |-> Str("ep2"), srcName |-> Str("veth0"), addr |-> Addr4,
    addrv6 |-> Addr6, macAddress |-> Mac1, config |-> FullEpConfig,
    containerConfig |-> FullContainerConfig, portMapping |-> <<PB1>>,
    dbIndex |-> 0, dbExists |-> FALSE]}

InitCopy ==
  /\ \E a \in CopySources, b \in CopyDests :
       LET x == NewEndpoint(<<>>, a)
           y == NewEndpoint(x.h, b)
       IN epA = x.ep /\ epB = y.ep /\ heap = y.h
  /\ copied = FALSE /\ touched = {} /\ snapA = Nil /\ snapB = Nil /\ nmut = 0
  /\ InitCodecIdle
  /\ InitRestoreIdle

\* The store has written A and hands it its version index: SetIndex.
StoreWrite ==
  /\ ~copied
  /\ ~Exists(epA)
  /\ \E index \in {7} : epA' = SetIndex(epA, index)
  /\ UNCHANGED <<heap, epB, copied, touched, snapA, snapB, nmut, codecVars, restoreVars>>

\* A.CopyTo(B).
DoCopyTo ==
  /\ ~copied
  /\ LET c == CopyTo(heap, epA, epB)
     IN /\ epB' = c.ep
        /\ heap' = c.h
        /\ snapA' = DeepVal(c.h, epA)
        /\ snapB' = DeepVal(c.h, c.ep)
  /\ copied' = TRUE
  /\ UNCHANGED <<epA, touched, nmut, codecVars, restoreVars>>

\* The in-place changes of a cell: a byte written, a field or an element's field
\* assigned.
Scribbles(c) ==
  CASE c.k = "bytes" -> {[c EXCEPT !.v = <<"ff">>]}
    [] c.k = "ipnet" -> {[c EXCEPT !.IP = 0], [c EXCEPT !.Mask = 0]}
    [] c.k = "pbs" -> {[c EXCEPT !.v[i].Port = "9999"] : i \in 1..Len(c.v)}
                        \cup {[c EXCEPT !.v[i].HostIP = 0] : i \in 1..Len(c.v)}
    [] c.k = "tps" -> {[c EXCEPT !.v[i].Port = "9999"] : i \in 1..Len(c.v)}
    [] c.k = "strs" -> {[c EXCEPT !.v[i] = Str("zz")] : i \in 1..Len(c.v)}
    [] c.k = "epcfg" -> {[c EXCEPT !.MacAddress = 0], [c EXCEPT !.PortBindings = 0],
                         [c EXCEPT !.ExposedPorts = 0]}
    [] c.k = "ccfg" -> {[c EXCEPT !.ParentEndpoints = 0], [c EXCEPT !.ChildEndpoints = 0]}

\* The assignments to a field of the struct itself.
FieldScribbles(ep) ==
  {[ep EXCEPT !.addr = 0], [ep EXCEPT !.addrv6 = 0], [ep EXCEPT !.macAddress = 0],
   [ep EXCEPT !.config = 0], [ep EXCEPT !.containerConfig = 0],
   [ep EXCEPT !.portMapping = 0]}

\* After the copy, a holder of B changes something it reaches through B.
MutateB ==
  /\ copied
  /\ nmut < MaxMutations
  /\ \/ /\ \E r \in Reach(heap, epB) : \E c \in Scribbles(heap[r]) :
             /\ c # heap[r]
             /\ heap' = [heap EXCEPT ![r] = c]
        /\ UNCHANGED epB
     \/ /\ \E e \in FieldScribbles(epB) : e # epB /\ epB' = e
        /\ UNCHANGED heap
  /\ touched' = touched \cup {"B"}
  /\ nmut' = nmut + 1
  /\ UNCHANGED <<epA, copied, snapA, snapB, codecVars, restoreVars>>

\* After the copy, a holder of A changes something it reaches through A.
MutateA ==
  /\ copied
  /\ nmut < MaxMutations
  /\ \/ /\ \E r \in Reach(heap, epA) : \E c \in Scribbles(heap[r]) :
             /\ c # heap[r]
             /\ heap' = [heap EXCEPT ![r] = c]
        /\ UNCHANGED epA
     \/ /\ \E e \in FieldScribbles(epA) : e # epA /\ epA' = e
        /\ UNCHANGED heap
  /\ touched' = touched \cup {"A"}
  /\ nmut' = nmut + 1
  /\ UNCHANGED <<epB, copied, snapA, snapB, codecVars, restoreVars>>

NextCopy == StoreWrite \/ DoCopyTo \/ MutateB \/ MutateA

SpecCopy == InitCopy /\ [][NextCopy]_vars

-----------------------------------------------------------------------------
(* Codec claims *)

\* C1: a valid record written with Value() and read back with SetValue() into a
\* record from New() decodes without error or panic, and the decoded record's id,
\* srcName, addr, addrv6, macAddress, config, containerConfig and portMapping equal
\* the original's.
C1_RoundTrip ==
  (cpc = "decoded" /\ origin = "encoded") => (dec.out = "ok" /\ SameFields(dec.v, rec))

\* The part of C1 the code keeps: a record with no container configuration, no port
\* mapping and no port bindings or exposed ports in its configuration round-trips.
RoundTripWithoutLists ==
  ( /\ cpc = "decoded" /\ origin = "encoded"
    /\ IsNil(rec.containerConfig) /\ rec.portMapping = <<>>
    /\ (IsNil(rec.config) \/ (rec.config.PortBindings = <<>> /\ rec.config.ExposedPorts = <<>>)) )
  => (dec.out = "ok" /\ SameFields(dec.v, rec))

\* The value of key k is missing or is no JSON string.
NotAString(d, k) == DocGet(d, k).j # "str"

\* C2: decoding a JSON object whose id or srcName is absent or not a string returns
\* an error: it neither panics nor succeeds.
C2_MalformedRecord ==
  ( /\ cpc = "decoded" /\ origin = "raw"
    /\ (NotAString(bytes, "id") \/ NotAString(bytes, "srcName")) )
  => dec.out = "error"

\* The optional keys with a string form, and the string each holds when it cannot
\* be parsed.
BadRaw(k) ==
  CASE k = "addr" -> NotACidr
    [] k = "addrv6" -> NotACidr
    [] k = "macAddress" -> NotAMac
    [] k = "portMapping" -> NotABinding

OptionalKeys == {"addr", "addrv6", "macAddress", "portMapping"}

\* Key k of document d is present and does not parse.
Unparsable(d, k) ==
  IF k = "portMapping"
  THEN DocGet(d, k) = JArr(<<JStr(NotABinding)>>)
  ELSE DocGet(d, k) = JStr(BadRaw(k))

\* The document has both required keys and no sub-configuration object.
PlainDoc(d) ==
  /\ ~NotAString(d, "id") /\ ~NotAString(d, "srcName")
  /\ DocGet(d, "config") \in {Absent, JNull}
  /\ DocGet(d, "containerConfiguration") \in {Absent, JNull}

\* C3: when an optional key is present and its string form does not parse, decode
\* returns an error that names one such key with the raw string it held; it
\* neither panics nor succeeds.
C3_FieldDecodeError ==
  ( /\ cpc = "decoded" /\ origin = "raw" /\ PlainDoc(bytes)
    /\ \E k \in OptionalKeys : Unparsable(bytes, k) )
  => /\ dec.out = "error"
     /\ dec.err.kind = "InternalError"
     /\ dec.err.field \in {k \in OptionalKeys : Unparsable(bytes, k)}
     /\ dec.err.raw = BadRaw(dec.err.field)

\* The part of C3 the code keeps: addr, addrv6 and macAddress, in a document
\* without portMapping.
FieldDecodeErrorWithoutPortMapping ==
  ( /\ cpc = "decoded" /\ origin = "raw" /\ PlainDoc(bytes)
    /\ DocGet(bytes, "portMapping") = Absent
    /\ \E k \in OptionalKeys : Unparsable(bytes, k) )
  => /\ dec.out = "error"
     /\ dec.err.kind = "InternalError"
     /\ dec.err.field \in {k \in OptionalKeys : Unparsable(bytes, k)}
     /\ dec.err.raw = BadRaw(dec.err.field)

\* The optional keys of the document are absent or well-formed strings, and it has
\* no portMapping.
CleanOptionalKeys(d) ==
  /\ ~NotAString(d, "id") /\ ~NotAString(d, "srcName")
  /\ \A k \in {"addr", "addrv6", "macAddress"} : ~Unparsable(d, k)
  /\ DocGet(d, "portMapping") = Absent

\* C8: with config and containerConfiguration each absent, null or the empty
\* object, decode returns without a panic and without an error.
C8_SubConfigShapes ==
  ( /\ cpc = "decoded" /\ origin = "raw" /\ CleanOptionalKeys(bytes)
    /\ DocGet(bytes, "config") \in {Absent, JNull, JEmptyObj}
    /\ DocGet(bytes, "containerConfiguration") \in {Absent, JNull, JEmptyObj} )
  => dec.out = "ok"

\* The part of C8 the code keeps: every shape of config, and containerConfiguration
\* absent or null.
SubConfigShapesWithoutEmptyContainer ==
  ( /\ cpc = "decoded" /\ origin = "raw" /\ CleanOptionalKeys(bytes)
    /\ DocGet(bytes, "config") \in {Absent, JNull, JEmptyObj}
    /\ DocGet(bytes, "containerConfiguration") \in {Absent, JNull} )
  => dec.out = "ok"

-----------------------------------------------------------------------------
(* Deep-copy claims *)

\* C7: after A.CopyTo(B), no in-place change made through B changes what A holds,
\* and none made through A changes what B holds.
C7_CopyIndependent ==
  copied => /\ "A" \notin touched => DeepVal(heap, epA) = snapA
            /\ "B" \notin touched => DeepVal(heap, epB) = snapB

\* The cells the two records share after CopyTo are address bytes of port bindings.
SharedCellsAreBindingBytes ==
  copied => \A r \in Reach(heap, epA) \cap Reach(heap, epB) :
              /\ heap[r].k = "bytes"
              /\ \E q \in Reach(heap, epA) :
                   heap[q].k = "pbs" /\ r \in CellRefs(heap[q])

\* C10: when A.CopyTo(B) returns, every attribute of B equals A's, whatever B held
\* before: id, srcName, addr, addrv6, macAddress, config, containerConfig,
\* portMapping, version index and existence flag.
C10_CopyIsDuplicate ==
  (copied /\ touched = {}) => DeepVal(heap, epB) = DeepVal(heap, epA)

\* The part of C10 the code keeps: the fields CopyTo assigns unconditionally, and
\* each sub-configuration that A has.
CopyAssignedFields ==
  (copied /\ touched = {}) =>
    LET a == DeepVal(heap, epA)
        b == DeepVal(heap, epB)
    IN /\ b.id = a.id /\ b.srcName = a.srcName
       /\ b.addr = a.addr /\ b.addrv6 = a.addrv6 /\ b.macAddress = a.macAddress
       /\ b.portMapping = a.portMapping
       /\ ~IsNil(a.config) => b.config = a.config
       /\ ~IsNil(a.containerConfig) => b.containerConfig = a.containerConfig

-----------------------------------------------------------------------------
(* Restore claims *)

\* C4: when List returns an error other than ErrKeyNotFound, populateEndpoints
\* returns that error and the endpoint table is what it was before the call,
\* whatever records List returned beside the error.
C4_ListErrorPropagates ==
  (rpc = "done" /\ listErr = "other") => (ret = "other" /\ endpoints = endpoints0)

\* List failed with records beside the error, on a network whose table was not
\* empty, and populateEndpoints has returned.
C4_Witness ==
  /\ rpc = "done" /\ listErr = "other" /\ ret = "other"
  /\ Len(kvol) > 0 /\ DOMAIN endpoints0 # {}

\* C5: when List reports ErrKeyNotFound, populateEndpoints returns no error, and
\* a table that was empty before the call is empty after it.
C5_NotFoundIsEmpty ==
  (rpc = "done" /\ listErr = "ErrKeyNotFound")
  => (ret = "nil" /\ (endpoints0 = <<>> => endpoints = <<>>))

\* List reported ErrKeyNotFound on a network with an empty table, and
\* populateEndpoints has returned.
C5_Witness ==
  /\ rpc = "done" /\ listErr = "ErrKeyNotFound"
  /\ endpoints0 = <<>> /\ endpoints = <<>> /\ kvstore # {}

\* The identifiers stored under the key prefix ("bridge_endpoint", N).
StoredIds == {k[3] : k \in {x \in kvstore : x[1] = bridgeEndpointPrefix /\ x[2] = Str("N")}}

\* The identifiers of the records List returned.
ListedIds == {kvol[i].id : i \in 1..Len(kvol)}

\* C6: after populateEndpoints has returned nil, the records List returned are
\* those stored under N's key prefix; the table maps the identifier of each to
\* that record, bound to N; every other identifier is in the table exactly if it
\* was before the call, with the record it had.
C6_TablePopulated ==
  (rpc = "done" /\ ret = "nil")
  => /\ ListedIds = StoredIds
     /\ \A i \in 1..Len(kvol) :
          /\ kvol[i].id \in DOMAIN endpoints
          /\ endpoints[kvol[i].id] = [kvol[i] EXCEPT !.network = "N"]
     /\ \A i \in (DOMAIN endpoints \cup DOMAIN endpoints0) \ ListedIds :
          /\ i \in DOMAIN endpoints /\ i \in DOMAIN endpoints0
          /\ endpoints[i] = endpoints0[i]

\* populateEndpoints has returned nil after List returned a record not yet bound to
\* a network whose identifier was in the table, beside an identifier that was in
\* the table and is not listed, while the store also holds a key of network M.
C6_Witness ==
  /\ rpc = "done" /\ ret = "nil" /\ Len(kvol) > 0
  /\ kvol[1].network = "none"
  /\ kvol[1].id \in DOMAIN endpoints0
  /\ DOMAIN endpoints0 \ ListedIds # {}
  /\ \E k \in kvstore : k[2] = Str("M")

\* C9: beside a runtime thread, populateEndpoints holds the network's lock exactly
\* from n.Lock() to n.Unlock() around one insert: it holds it when it writes the
\* table, it does not hold it while List is in progress or between two inserts,
\* and it is never in the critical section together with the runtime thread.
C9_LockDiscipline ==
  /\ (lock = "restore") <=> (rpc \in {"insert", "unlock"})
  /\ rpc \in {"start", "listing", "loop", "lock", "done"} => lock # "restore"
  /\ ~(rpc \in {"insert", "unlock"} /\ tpc \in {"crit", "release"})

\* populateEndpoints holds the lock for its second insert, after the runtime
\* thread changed the table, and the runtime thread is at its next n.Lock().
C9_Witness ==
  /\ rpc = "insert" /\ idx = 2 /\ lock = "restore"
  /\ tpc = "ready" /\ tops = 1
  /\ \E i \in DOMAIN endpoints : endpoints[i].srcName = Str("runtime")

=============================================================================
